---- MODULE Spec2Model ----
(***************************************************************************)
(* Model of speeder_upper.py: the sponsor-segment complement               *)
(* (find_worthwhile_clips), the filter graph built from it                 *)
(* (add_sponsor_video_filter, trim_video, trim_audio) and the per-video    *)
(* loop of encode_videos.                                                  *)
(*                                                                         *)
(* Timestamps are seconds on an integer grid: the code only compares,      *)
(* copies and subtracts them, so the grid keeps every ordering case        *)
(* (equal, adjacent, overlapping, nested, beyond the duration).            *)
(***************************************************************************)
EXTENDS Integers, Sequences, FiniteSets, TLC

\* ------------------------------------------------------------------ bounds
MaxTime ==
    4
MaxSegments ==
    2
\* Videos in one batch.
MaxVideos ==
    2
\* Last second of the probed durations and of the provider's timestamps in
\* the encode loop.
MaxProbeTime ==
    2
\* Objects in one provider response in the encode loop.
MaxResponseItems ==
    1
\* How far around MAX_HEIGHT and MAX_WIDTH the source sizes of the transform
\* stages are taken.
MaxSizeDelta ==
    2
\* URLs on the command line of one invocation of main.
MaxUrls ==
    2
\* URLs on each command line when two invocations share a working directory.
MaxSharedUrls ==
    1

\* ------------------------------------------------------------------ program constants
MAX_RETRIES ==
    5
MAX_HEIGHT ==
    1080
MAX_WIDTH ==
    1920
MAX_OUTPUT_FRAME_RATE ==
    60
\* SPEED_FACTOR = 2.50 = SPEED_FACTOR_NUM / SPEED_FACTOR_DEN
SPEED_FACTOR_NUM ==
    5
SPEED_FACTOR_DEN ==
    2

\* ------------------------------------------------------------------ state
VARIABLES
    pc,               \* position of the driver of find_worthwhile_clips and the builders
    segments,         \* parsed provider response: sequence of [segment |-> <<start, end>>]
    total_duration,   \* duration of the untrimmed source
    output,           \* find_worthwhile_clips(segments, total_duration)
    output2           \* find_worthwhile_clips(output as segments, total_duration)

VARIABLES
    at,                   \* position inside encode_videos
    downloaded_videos,    \* the batch: sequence of display_id
    files,                \* the working directory: set of [id, ext]
    existing_mkv_files,   \* glob.glob("*.mkv") taken on entry
    existing_mp4_files,   \* glob.glob("*.mp4") taken on entry
    video_index,          \* position of the for loop in downloaded_videos
    new_height,
    new_width,
    total_length,
    provider_outcome,     \* what requests.get did for the current video
    trim_calls,           \* the calls of trim_video and trim_audio for the current video
    v1,
    a1,
    frame_rate,           \* get_frame_rate(in_file_name)
    output_framerate,     \* in units of 1/SPEED_FACTOR_DEN frames per second
    exception,            \* the exception that left encode_videos, if any
    encoder_outcome       \* how the ffmpeg run for the current video ended

\* main, one value per invocation (process) sharing the working directory.
VARIABLES
    main_at,                 \* position of the invocation inside main
    urls,                    \* the URLs on its command line, as video ids
    codec_label,             \* its --codec argument
    download_lock,           \* holder of ytdl_download.lock, or "free"
    encode_lock,             \* holder of ytdl_encode.lock, or "free"
    retries_remaining,       \* of the running download_videos call
    url_index,               \* position of the for loop over videos
    result_list,
    downloaded_videos_of,    \* what download_videos returned to main
    video_index_of,          \* position of the for loop of encode_videos
    existing_mkv_files_of,   \* glob.glob("*.mkv") taken on entry of encode_videos
    existing_mp4_files_of,   \* glob.glob("*.mp4") taken on entry of encode_videos
    exception_of,            \* the exception that ended the invocation, or "none"
    passes,                  \* passes over the URL list started so far
    failures,                \* acquisition failures so far
    acquired,                \* ids whose extract_info succeeded at least once
    phases,                  \* phases entered: "download", "encode"
    lock_timeouts,           \* locks the invocation failed to obtain
    initial_files            \* the working directory before the run

clipVars ==
    <<pc, segments, total_duration, output, output2>>

mainVars ==
    <<main_at, urls, codec_label, download_lock, encode_lock, retries_remaining, url_index,
      result_list, downloaded_videos_of, video_index_of, existing_mkv_files_of,
      existing_mp4_files_of, exception_of, passes, failures, acquired, phases, lock_timeouts,
      initial_files>>

encodeVars ==
    <<at, downloaded_videos, files, existing_mkv_files, existing_mp4_files,
      video_index, new_height, new_width, total_length, provider_outcome,
      trim_calls, v1, a1, frame_rate, output_framerate, exception,
      encoder_outcome>>

\* The variables of the encode_videos loop, without the working directory.
encodeLoopVars ==
    <<at, downloaded_videos, existing_mkv_files, existing_mp4_files, video_index,
      new_height, new_width, total_length, provider_outcome, trim_calls, v1, a1,
      frame_rate, output_framerate, exception, encoder_outcome>>

vars ==
    <<clipVars, encodeVars, mainVars>>

\* ------------------------------------------------------------------ helpers
Times ==
    0 .. MaxTime

\* An unwanted interval as the provider reports it: start <= end.
Intervals ==
    {iv \in Times \X Times : iv[1] <= iv[2]}

\* One element of the provider's JSON array.
SegmentObjects ==
    [segment : Intervals]

MaxOf(a, b) ==
    IF a >= b THEN a ELSE b

MinOf(a, b) ==
    IF a <= b THEN a ELSE b

RECURSIVE SeqsUpTo(_, _)
SeqsUpTo(S, n) ==
    IF n = 0 THEN {<<>>}
    ELSE LET shorter == SeqsUpTo(S, n - 1)
         IN  shorter \cup {Append(s, x) : s \in {t \in shorter : Len(t) = n - 1}, x \in S}

\* Python's list comparison a < b on two [start, end] lists.
ListLess(a, b) ==
    \/ a[1] < b[1]
    \/ a[1] = b[1] /\ a[2] < b[2]

\* A comparison on the start alone, as sorted(key=lambda x: x[0]) would use.
StartLess(a, b) ==
    a[1] < b[1]

RECURSIVE InsertSorted(_, _)
InsertSorted(x, s) ==
    IF s = <<>> THEN <<x>>
    ELSE IF ListLess(x, Head(s)) THEN <<x>> \o s
    ELSE <<Head(s)>> \o InsertSorted(x, Tail(s))

RECURSIVE InsertByStart(_, _)
InsertByStart(x, s) ==
    IF s = <<>> THEN <<x>>
    ELSE IF StartLess(x, Head(s)) THEN <<x>> \o s
    ELSE <<Head(s)>> \o InsertByStart(x, Tail(s))

\* A stable sort on the start alone.
RECURSIVE sorted_by_start(_)
sorted_by_start(s) ==
    IF s = <<>> THEN <<>>
    ELSE InsertByStart(s[Len(s)], sorted_by_start(SubSeq(s, 1, Len(s) - 1)))

\* No sort at all: the list in the order supplied.
unsorted(s) ==
    s

\* sorted(list of [start, end]): ascending, lexicographic, stable.
RECURSIVE sorted(_)
sorted(s) ==
    IF s = <<>> THEN <<>>
    ELSE InsertSorted(s[Len(s)], sorted(SubSeq(s, 1, Len(s) - 1)))

\* [x["segment"] for x in segments]
SegmentList(segs) ==
    [i \in 1 .. Len(segs) |-> segs[i].segment]

\* The for loop of find_worthwhile_clips over the sorted list, from the
\* running `start` and the `output` built so far.
RECURSIVE Sweep(_, _, _)
Sweep(list, start, out) ==
    IF list = <<>> THEN [start |-> start, output |-> out]
    ELSE LET segment_start == Head(list)[1]
             segment_end   == Head(list)[2]
             out1 == IF segment_start > start
                     THEN Append(out, <<start, segment_start>>)
                     ELSE out
         IN  Sweep(Tail(list), segment_end, out1)

\* The final emission with <= in place of <.
FinalEmitInclusive(start, duration, out) ==
    IF start <= duration THEN Append(out, <<start, duration>>) ELSE out

\* if start < total_duration: output.append((start, total_duration))
FinalEmit(start, duration, out) ==
    IF start < duration THEN Append(out, <<start, duration>>) ELSE out

find_worthwhile_clips(segs, duration) ==
    LET swept == Sweep(sorted(SegmentList(segs)), 0, <<>>)
    IN  FinalEmit(swept.start, duration, swept.output)

\* Keep-intervals handed back as provider objects, to run the engine on its
\* own output.
AsSegments(clips) ==
    [i \in 1 .. Len(clips) |-> [segment |-> clips[i]]]

\* ------------------------------------------------------------------ filter graph (ffmpeg-python nodes)
\* ffmpeg.input("./" + in_file_name)["v"] or ["a"]
InputStream(display_id, selector) ==
    [op |-> "input", file |-> display_id, stream |-> selector]

\* Sub-clip i of a track: output i of the split, trimmed to the keep-interval
\* and re-origined with PTS-STARTPTS.
\* A sub-clip without the PTS-STARTPTS step.
SubClipKeepingTimestamps(stream, split_op, trim_op, setpts_op, n, i, segment) ==
    [op |-> trim_op, start |-> segment[1], end |-> segment[2],
     in |-> [op |-> split_op, outputs |-> n, index |-> i - 1, in |-> stream]]

SubClip(stream, split_op, trim_op, setpts_op, n, i, segment) ==
    [op |-> setpts_op, expr |-> "PTS-STARTPTS",
     in |-> [op |-> trim_op, start |-> segment[1], end |-> segment[2],
             in |-> [op |-> split_op, outputs |-> n, index |-> i - 1, in |-> stream]]]

\* trim_video concatenating its sub-clips last to first.
trim_video_reversed(video_stream, segments_to_keep) ==
    LET streams_to_concat ==
            [i \in 1 .. Len(segments_to_keep) |->
                SubClip(video_stream, "split", "trim", "setpts",
                        Len(segments_to_keep), i, segments_to_keep[i])]
    IN  [op |-> "concat", n |-> Len(streams_to_concat), v |-> 1, a |-> 0,
         inputs |-> [i \in 1 .. Len(streams_to_concat) |->
                        streams_to_concat[Len(streams_to_concat) + 1 - i]]]

trim_video(video_stream, segments_to_keep) ==
    LET streams_to_concat ==
            [i \in 1 .. Len(segments_to_keep) |->
                SubClip(video_stream, "split", "trim", "setpts",
                        Len(segments_to_keep), i, segments_to_keep[i])]
    IN  [op |-> "concat", n |-> Len(streams_to_concat), v |-> 1, a |-> 0,
         inputs |-> streams_to_concat]

\* trim_audio handing the audio back as it came.
trim_audio_untrimmed(audio_stream, segments_to_keep) ==
    audio_stream

trim_audio(audio_stream, segments_to_keep) ==
    LET streams_to_concat ==
            [i \in 1 .. Len(segments_to_keep) |->
                SubClip(audio_stream, "asplit", "atrim", "asetpts",
                        Len(segments_to_keep), i, segments_to_keep[i])]
    IN  [op |-> "concat", n |-> Len(streams_to_concat), v |-> 0, a |-> 1,
         inputs |-> streams_to_concat]

\* ------------------------------------------------------------------ the segment provider
\* A response body is a sequence of tokens.
Word(s) ==
    [t |-> "word", s |-> s]
Punct(c) ==
    [t |-> c]
ObjectToken(fields) ==
    [t |-> "object", fields |-> fields]

NotFoundText ==
    <<Word("Not Found")>>

ProbeTimes ==
    0 .. MaxProbeTime

\* The objects of a provider array: a segment annotation, or an object that
\* carries no "segment" key.
ResponseObjects ==
    {[segment |-> iv] : iv \in {p \in ProbeTimes \X ProbeTimes : p[1] <= p[2]}}
        \cup {[category |-> "sponsor"]}

ArrayText(items) ==
    <<Punct("[")>> \o [i \in 1 .. Len(items) |-> ObjectToken(items[i])] \o <<Punct("]")>>

\* Bodies the provider (or anything answering in its place) can send.
ResponseTexts ==
    {NotFoundText, <<Word("Bad Gateway")>>}
        \cup {ArrayText(items) : items \in SeqsUpTo(ResponseObjects, MaxResponseItems)}
        \cup {<<Punct("["), ObjectToken([segment |-> <<0, 1>>])>>}
        \cup {<<Punct("{"), Punct("}")>>, <<Punct("{"), Word("message"), Punct("}")>>}

\* What requests.get(..., timeout=10) does: it raises, or it returns a body.
ProviderOutcomes ==
    {[raises |-> "ReadTimeout"], [raises |-> "ConnectionError"]}
        \cup {[raises |-> "none", text |-> body] : body \in ResponseTexts}

NoOutcome ==
    [raises |-> "unset"]

\* json.loads, never catching JSONDecodeError in place of the caller.
\* An array of objects parses to the list of the objects, a {...} document to
\* a dict (iterated by its keys); anything else raises JSONDecodeError.
json_loads(text) ==
    LET n == Len(text)
    IN  IF /\ n >= 2
           /\ text[1] = Punct("[")
           /\ text[n] = Punct("]")
           /\ \A i \in 2 .. n - 1 : text[i].t = "object"
        THEN [raises |-> "none", type |-> "list",
              items |-> [i \in 1 .. n - 2 |-> text[i + 1].fields]]
        ELSE IF /\ n >= 2
                /\ text[1] = Punct("{")
                /\ text[n] = Punct("}")
                /\ \A i \in 2 .. n - 1 : text[i].t = "word"
        THEN [raises |-> "none", type |-> "dict",
              items |-> [i \in 1 .. n - 2 |-> text[i + 1].s]]
        ELSE [raises |-> "JSONDecodeError"]

\* The exception [x["segment"] for x in segments] raises, or "none".
\* Iterating a dict yields its keys, and str["segment"] is a TypeError.
SegmentLookupRaises(parsed) ==
    IF parsed.type = "dict"
    THEN IF parsed.items = <<>> THEN "none" ELSE "TypeError"
    ELSE IF \E i \in 1 .. Len(parsed.items) : "segment" \notin DOMAIN parsed.items[i]
    THEN "KeyError"
    ELSE "none"

\* The elements find_worthwhile_clips iterates over.
IterableOf(parsed) ==
    IF parsed.type = "dict" THEN <<>> ELSE parsed.items

fetch_sponsored_bits(outcome) ==
    IF outcome.raises = "ReadTimeout" THEN [raises |-> "none", text |-> NotFoundText]
    ELSE IF outcome.raises # "none" THEN [raises |-> outcome.raises]
    ELSE [raises |-> "none", text |-> outcome.text]

\* One call of trim_video or trim_audio, with the list it was handed.
TrimCall(fn, segments_to_keep) ==
    [fn |-> fn, segments_to_keep |-> segments_to_keep]

\* A return of add_sponsor_video_filter, after the given trim calls.
Returned(v, a, calls) ==
    [raises |-> "none", video |-> v, audio |-> a, trim_calls |-> calls]

\* An exception leaving add_sponsor_video_filter, after the given trim calls.
Raised(type, calls) ==
    [raises |-> type, trim_calls |-> calls]

\* Lines 371-373: both builders are called with segments_to_keep; when
\* ffmpeg.concat refuses to build from no streams, trim_video raises first.
TrimBoth(video_stream, audio_stream, segments_to_keep, empty_concat_builds) ==
    IF segments_to_keep = <<>> /\ ~ empty_concat_builds
    THEN Raised("ValueError", <<TrimCall("trim_video", segments_to_keep)>>)
    ELSE Returned(trim_video(video_stream, segments_to_keep),
                  trim_audio(audio_stream, segments_to_keep),
                  <<TrimCall("trim_video", segments_to_keep),
                    TrimCall("trim_audio", segments_to_keep)>>)

\* add_sponsor_video_filter without its except clause.
add_sponsor_video_filter_no_except(video_stream, audio_stream, outcome, duration, empty_concat_builds) ==
    LET fetched == fetch_sponsored_bits(outcome)
    IN  IF fetched.raises # "none" THEN Raised(fetched.raises, <<>>)
        ELSE IF fetched.text = NotFoundText
        THEN Returned(video_stream, audio_stream, <<>>)
        ELSE LET parsed == json_loads(fetched.text)
             IN  IF parsed.raises # "none" THEN Raised(parsed.raises, <<>>)
                 ELSE IF SegmentLookupRaises(parsed) # "none"
                 THEN Raised(SegmentLookupRaises(parsed), <<>>)
                 ELSE LET segments_to_keep ==
                              find_worthwhile_clips(IterableOf(parsed), duration)
                      IN  TrimBoth(video_stream, audio_stream, segments_to_keep,
                                   empty_concat_builds)

\* empty_concat_builds: whether ffmpeg.concat() of no streams builds a node
\* (the library decides; when it refuses, it raises ValueError).
add_sponsor_video_filter(video_stream, audio_stream, outcome, duration, empty_concat_builds) ==
    LET fetched == fetch_sponsored_bits(outcome)
    IN  IF fetched.raises # "none" THEN Raised(fetched.raises, <<>>)
        ELSE IF fetched.text = NotFoundText
        THEN Returned(video_stream, audio_stream, <<>>)
        ELSE LET parsed == json_loads(fetched.text)
             IN  IF parsed.raises = "JSONDecodeError"
                 THEN Returned(video_stream, audio_stream, <<>>)
                 ELSE IF SegmentLookupRaises(parsed) # "none"
                 THEN Raised(SegmentLookupRaises(parsed), <<>>)
                 ELSE LET segments_to_keep ==
                              find_worthwhile_clips(IterableOf(parsed), duration)
                      IN  TrimBoth(video_stream, audio_stream, segments_to_keep,
                                   empty_concat_builds)

\* ------------------------------------------------------------------ encode_videos
VideoIds ==
    {"a", "b"}

\* (height, width) pairs ffmpeg.probe can report in the encode loop: one within
\* both maxima, one beyond the maximum width.
VideoSizes ==
    {<<720, 1280>>, <<1080, 2560>>}

\* r_frame_rate values ffmpeg.probe can report: one whose sped-up rate stays
\* below MAX_OUTPUT_FRAME_RATE, one at it, one above it.
FrameRates ==
    {10, 24, 30}

\* Durations get_total_duration can return.
Durations ==
    1 .. MaxProbeTime

\* A file name: name_root + display_id + ext.
File(name_root, id, ext) ==
    [root |-> name_root, id |-> id, ext |-> ext]

\* in_file_name = display_id + ".mkv"
InFile(id) ==
    File("", id, "mkv")

\* temp_file_name = "./" + display_id + ".tmp"
TempFile(id) ==
    File("", id, "tmp")

\* destination_file = file_name_root + "_" + display_id + ".mp4"
DestinationFile(id) ==
    File("file_name_root_", id, "mp4")

\* f"ERROR_ENCODING_FILE{out_file_suffix}": the name ends in _<display_id>.mp4 too.
ErrorFile(id) ==
    File("ERROR_ENCODING_FILE_", id, "mp4")

\* glob.iglob("*" + out_file_suffix)
OutputMatches(id) ==
    {f \in files : f.ext = "mp4" /\ f.id = id}

\* What can lie in the working directory when encode_videos is entered.
InitialFiles ==
    {InFile(d) : d \in VideoIds} \cup {DestinationFile(d) : d \in VideoIds}
        \cup {ErrorFile("a"), TempFile("a")}

NoStream ==
    [op |-> "none"]

NoException ==
    [type |-> "none", where |-> "none"]

\* No ffmpeg run yet for the current video.
NoRun ==
    [result |-> "unset"]

\* Locals of one loop iteration that hold probe results and streams, before
\* they are assigned.
FrameLocalsUnset ==
    /\ new_height' = 0
    /\ new_width' = 0
    /\ total_length' = 0
    /\ v1' = NoStream
    /\ a1' = NoStream
    /\ frame_rate' = 0
    /\ output_framerate' = 0

\* Locals of one loop iteration, before they are assigned.
LocalsUnset ==
    /\ FrameLocalsUnset
    /\ provider_outcome' = NoOutcome
    /\ trim_calls' = <<>>

\* encode_videos is not stepped through statement by statement.
EncodeLoopIdle ==
    /\ at = "idle"
    /\ downloaded_videos = <<>>
    /\ existing_mkv_files = {}
    /\ existing_mp4_files = {}
    /\ video_index = 0
    /\ new_height = 0
    /\ new_width = 0
    /\ total_length = 0
    /\ provider_outcome = NoOutcome
    /\ trim_calls = <<>>
    /\ v1 = NoStream
    /\ a1 = NoStream
    /\ frame_rate = 0
    /\ output_framerate = 0
    /\ exception = NoException
    /\ encoder_outcome = NoRun

EncodeIdle ==
    /\ EncodeLoopIdle
    /\ files = {}

\* The invocations of main that share the working directory.
Invocations ==
    {"A", "B"}

\* No invocation of main is running.
MainIdle ==
    /\ main_at = [p \in Invocations |-> "absent"]
    /\ urls = [p \in Invocations |-> <<>>]
    /\ codec_label = [p \in Invocations |-> "x265"]
    /\ download_lock = "free"
    /\ encode_lock = "free"
    /\ retries_remaining = [p \in Invocations |-> 0]
    /\ url_index = [p \in Invocations |-> 0]
    /\ result_list = [p \in Invocations |-> <<>>]
    /\ downloaded_videos_of = [p \in Invocations |-> <<>>]
    /\ video_index_of = [p \in Invocations |-> 0]
    /\ existing_mkv_files_of = [p \in Invocations |-> {}]
    /\ existing_mp4_files_of = [p \in Invocations |-> {}]
    /\ exception_of = [p \in Invocations |-> "none"]
    /\ passes = [p \in Invocations |-> 0]
    /\ failures = [p \in Invocations |-> 0]
    /\ acquired = [p \in Invocations |-> {}]
    /\ phases = [p \in Invocations |-> {}]
    /\ lock_timeouts = [p \in Invocations |-> {}]
    /\ initial_files = {}

ClipsIdle ==
    /\ pc = "idle"
    /\ segments = <<>>
    /\ total_duration = 0
    /\ output = <<>>
    /\ output2 = <<>>

display_id ==
    downloaded_videos[video_index]

\* An exception leaves encode_videos at the statement `where`: the loop and
\* the cleanup are abandoned, and the frame with its locals is gone.
Raise(type, where) ==
    /\ at' = "raised"
    /\ exception' = [type |-> type, where |-> where]
    /\ FrameLocalsUnset

\* `continue`, or the end of the loop body: on to the next video.
NextVideo ==
    /\ at' = "for"
    /\ video_index' = video_index + 1
    /\ LocalsUnset

Init ==
    /\ ClipsIdle
    /\ MainIdle
    /\ at = "enter"
    /\ downloaded_videos \in SeqsUpTo(VideoIds, MaxVideos)
    /\ files \in SUBSET InitialFiles
    /\ existing_mkv_files = {}
    /\ existing_mp4_files = {}
    /\ video_index = 0
    /\ new_height = 0
    /\ new_width = 0
    /\ total_length = 0
    /\ provider_outcome = NoOutcome
    /\ trim_calls = <<>>
    /\ v1 = NoStream
    /\ a1 = NoStream
    /\ frame_rate = 0
    /\ output_framerate = 0
    /\ exception = NoException
    /\ encoder_outcome = NoRun

\* existing_mkv_files = glob.glob("*.mkv"); existing_mp4_files = glob.glob("*.mp4")
EncodeVideosEnter ==
    /\ at = "enter"
    /\ existing_mkv_files' = {f \in files : f.ext = "mkv"}
    /\ existing_mp4_files' = {f \in files : f.ext = "mp4"}
    /\ video_index' = 1
    /\ at' = "for"
    /\ UNCHANGED <<downloaded_videos, files, new_height, new_width, total_length,
                   provider_outcome, trim_calls, v1, a1, frame_rate, output_framerate,
                   exception>>
    /\ UNCHANGED encoder_outcome
    /\ UNCHANGED clipVars
    /\ UNCHANGED mainVars

\* Head of the loop body: the source is taken off the stale list, and a video
\* whose output exists is skipped. list.remove raises ValueError when the
\* output is not in the list taken on entry.
ForVideo ==
    /\ at = "for"
    /\ video_index <= Len(downloaded_videos)
    /\ existing_mkv_files' = existing_mkv_files \ {InFile(display_id)}
    /\ IF OutputMatches(display_id) # {}
       THEN \E existing_file \in OutputMatches(display_id) :
              IF existing_file \in existing_mp4_files
              THEN /\ existing_mp4_files' = existing_mp4_files \ {existing_file}
                   /\ NextVideo
                   /\ UNCHANGED exception
              ELSE /\ Raise("ValueError", "existing_mp4_files.remove")
                   /\ UNCHANGED <<existing_mp4_files, video_index, provider_outcome,
                                  trim_calls>>
       ELSE /\ at' = "probe"
            /\ UNCHANGED <<existing_mp4_files, video_index, new_height, new_width,
                           total_length, provider_outcome, trim_calls, v1, a1,
                           frame_rate, output_framerate, exception>>
    /\ UNCHANGED <<downloaded_videos, files>>
    /\ encoder_outcome' = NoRun
    /\ UNCHANGED clipVars
    /\ UNCHANGED mainVars

\* get_height_and_width, ffmpeg.input, get_total_duration: ffmpeg.probe raises
\* ffmpeg.Error on a source that is not there.
Probe ==
    /\ at = "probe"
    /\ IF InFile(display_id) \in files
       THEN \E size \in VideoSizes, duration \in Durations :
                /\ new_height' = size[1]
                /\ new_width' = size[2]
                /\ total_length' = duration
                /\ v1' = InputStream(display_id, "v")
                /\ a1' = InputStream(display_id, "a")
                /\ at' = "sponsor"
                /\ UNCHANGED <<frame_rate, output_framerate, exception>>
       ELSE Raise("ffmpeg.Error", "get_height_and_width")
    /\ UNCHANGED <<downloaded_videos, files, existing_mkv_files, existing_mp4_files,
                   video_index, provider_outcome, trim_calls>>
    /\ UNCHANGED encoder_outcome
    /\ UNCHANGED clipVars
    /\ UNCHANGED mainVars

\* v1, a1 = add_sponsor_video_filter(v1, a1, display_id, total_length)
AddSponsorVideoFilter ==
    /\ at = "sponsor"
    /\ \E outcome \in ProviderOutcomes :
          \E result \in {add_sponsor_video_filter(v1, a1, outcome, total_length,
                                                  empty_concat_builds) :
                             empty_concat_builds \in BOOLEAN} :
              /\ provider_outcome' = outcome
              /\ trim_calls' = result.trim_calls
              /\ IF result.raises = "none"
                 THEN /\ v1' = result.video
                      /\ a1' = result.audio
                      /\ at' = "transform"
                      /\ UNCHANGED <<new_height, new_width, total_length, frame_rate,
                                     output_framerate, exception>>
                 ELSE Raise(result.raises, "add_sponsor_video_filter")
    /\ UNCHANGED <<downloaded_videos, files, existing_mkv_files, existing_mp4_files,
                   video_index>>
    /\ UNCHANGED encoder_outcome
    /\ UNCHANGED clipVars
    /\ UNCHANGED mainVars

\* v1.setpts("PTS/%s" % SPEED_FACTOR)
SpeedUpVideo(stream) ==
    [op |-> "setpts", expr |-> <<"PTS/", SPEED_FACTOR_NUM, SPEED_FACTOR_DEN>>, in |-> stream]

\* The scale stage put under the speed stage instead of on top of it.
ScaleDownUnderSpeed(stream) ==
    [stream EXCEPT !.in =
        [op |-> "scale", width |-> MAX_WIDTH, height |-> MAX_HEIGHT,
         force_original_aspect_ratio |-> "decrease", force_divisible_by |-> 2,
         in |-> stream.in]]

\* v1.filter("scale", MAX_WIDTH, MAX_HEIGHT, force_original_aspect_ratio="decrease",
\*           force_divisible_by=2)
ScaleDown(stream) ==
    [op |-> "scale", width |-> MAX_WIDTH, height |-> MAX_HEIGHT,
     force_original_aspect_ratio |-> "decrease", force_divisible_by |-> 2,
     in |-> stream]

\* a1.filter("atempo", SPEED_FACTOR)
SpeedUpAudio(stream) ==
    [op |-> "atempo", tempo |-> <<SPEED_FACTOR_NUM, SPEED_FACTOR_DEN>>, in |-> stream]

\* The sped-up rate without the cap.
OutputFramerateUncapped(fps) ==
    SPEED_FACTOR_NUM * fps

\* min(SPEED_FACTOR * fps, MAX_OUTPUT_FRAME_RATE), in units of 1/SPEED_FACTOR_DEN
OutputFramerate(fps) ==
    MinOf(SPEED_FACTOR_NUM * fps, SPEED_FACTOR_DEN * MAX_OUTPUT_FRAME_RATE)

\* The test on the height alone.
ExceedsMaxHeight(height, width) ==
    height > MAX_HEIGHT

\* if new_height > MAX_HEIGHT or new_width > MAX_WIDTH
ExceedsMaximum(height, width) ==
    height > MAX_HEIGHT \/ width > MAX_WIDTH

\* The speed, scale and frame-rate stages.
Transform ==
    /\ at = "transform"
    /\ v1' = IF ExceedsMaximum(new_height, new_width)
             THEN ScaleDown(SpeedUpVideo(v1))
             ELSE SpeedUpVideo(v1)
    /\ a1' = SpeedUpAudio(a1)
    /\ \E fps \in FrameRates :
          /\ frame_rate' = fps
          /\ output_framerate' = OutputFramerate(fps)
    /\ at' = "run"
    /\ UNCHANGED <<downloaded_videos, files, existing_mkv_files, existing_mp4_files,
                   video_index, new_height, new_width, total_length, provider_outcome,
                   trim_calls, exception>>
    /\ UNCHANGED encoder_outcome
    /\ UNCHANGED clipVars
    /\ UNCHANGED mainVars

\* How the ffmpeg run can end, and whether the temporary file exists when it
\* ends (the written output, or a file of that name left by an earlier run).
EncoderOutcomes ==
    [result : {"ok", "ffmpeg.Error", "KeyboardInterrupt"}, tmp_exists : BOOLEAN]

\* CODECS[codec_label](v1, a1, temp_file_name, output_framerate): every codec
\* function is ffmpeg.output(v1, a1, tmp_file, ..., r=framerate).
codec(video, audio, tmp_file, framerate) ==
    [op |-> "output", video |-> video, audio |-> audio, file |-> tmp_file,
     r |-> framerate]

\* os.rename(temp_file_name, destination_file)
RenameTemp(fs, id) ==
    (fs \ {TempFile(id)}) \cup {DestinationFile(id)}

\* An error path that moves the partial file to the destination as well.
RemoveTempAndPromote(fs, id) ==
    (fs \ {TempFile(id)}) \cup {ErrorFile(id), DestinationFile(id)}

\* os.remove(temp_file_name); Path(f"ERROR_ENCODING_FILE{out_file_suffix}").touch()
RemoveTempAndTouchError(fs, id) ==
    (fs \ {TempFile(id)}) \cup {ErrorFile(id)}

\* The try block around the encoder run, with the rename and the error path.
RunEncoder ==
    /\ at = "run"
    /\ \E o \in EncoderOutcomes :
          LET tmp == TempFile(display_id)
              after_run == IF o.tmp_exists THEN files \cup {tmp} ELSE files \ {tmp}
          IN  /\ encoder_outcome' =
                    [result |-> o.result, tmp_exists |-> o.tmp_exists, id |-> display_id]
              /\ IF o.result = "ok"
                 THEN IF o.tmp_exists
                      THEN /\ files' = RenameTemp(after_run, display_id)
                           /\ NextVideo
                           /\ UNCHANGED exception
                      ELSE /\ files' = after_run
                           /\ Raise("TypeError", "print")
                           /\ UNCHANGED <<video_index, provider_outcome, trim_calls>>
                 ELSE IF o.result = "ffmpeg.Error"
                 THEN IF o.tmp_exists
                      THEN /\ files' = RemoveTempAndTouchError(after_run, display_id)
                           /\ NextVideo
                           /\ UNCHANGED exception
                      ELSE /\ files' = after_run
                           /\ Raise("FileNotFoundError", "os.remove")
                           /\ UNCHANGED <<video_index, provider_outcome, trim_calls>>
                 ELSE /\ files' = after_run
                      /\ Raise("KeyboardInterrupt", "run")
                      /\ UNCHANGED <<video_index, provider_outcome, trim_calls>>
    /\ UNCHANGED <<downloaded_videos, existing_mkv_files, existing_mp4_files>>
    /\ UNCHANGED clipVars
    /\ UNCHANGED mainVars

\* After the loop: stale sources and outputs, then every *.tmp, are removed.
Cleanup ==
    /\ at = "for"
    /\ video_index > Len(downloaded_videos)
    /\ files' = {f \in files : /\ f \notin existing_mkv_files
                               /\ f \notin existing_mp4_files
                               /\ f.ext # "tmp"}
    /\ at' = "returned"
    /\ UNCHANGED <<downloaded_videos, existing_mkv_files, existing_mp4_files,
                   video_index, new_height, new_width, total_length, provider_outcome,
                   trim_calls, v1, a1, frame_rate, output_framerate, exception>>
    /\ UNCHANGED encoder_outcome
    /\ UNCHANGED clipVars
    /\ UNCHANGED mainVars

Next ==
    \/ EncodeVideosEnter
    \/ ForVideo
    \/ Probe
    \/ AddSponsorVideoFilter
    \/ Transform
    \/ RunEncoder
    \/ Cleanup

Spec ==
    Init /\ [][Next]_vars

\* ------------------------------------------------------------------ the transform stages, driven on bounded source sizes
SourceHeights ==
    {MAX_HEIGHT + d : d \in -MaxSizeDelta .. MaxSizeDelta}
        \cup {MAX_WIDTH, MAX_HEIGHT + MAX_HEIGHT}

SourceWidths ==
    {MAX_WIDTH + d : d \in -MaxSizeDelta .. MaxSizeDelta}
        \cup {MAX_HEIGHT, MAX_WIDTH + MAX_WIDTH}

\* encode_videos on one video, after add_sponsor_video_filter has handed the
\* tracks back untrimmed: the probe reported any of the source sizes.
InitTransform ==
    /\ ClipsIdle
    /\ MainIdle
    /\ at = "transform"
    /\ downloaded_videos = <<"a">>
    /\ files = {InFile("a")}
    /\ existing_mkv_files = {}
    /\ existing_mp4_files = {}
    /\ video_index = 1
    /\ new_height \in SourceHeights
    /\ new_width \in SourceWidths
    /\ total_length \in Durations
    /\ provider_outcome = [raises |-> "ReadTimeout"]
    /\ trim_calls = <<>>
    /\ v1 = InputStream("a", "v")
    /\ a1 = InputStream("a", "a")
    /\ frame_rate = 0
    /\ output_framerate = 0
    /\ exception = NoException
    /\ encoder_outcome = NoRun

NextTransform ==
    Transform

SpecTransform ==
    InitTransform /\ [][NextTransform]_vars

\* ------------------------------------------------------------------ the engine, driven on bounded inputs
InitClips ==
    /\ pc = "input"
    /\ segments \in SeqsUpTo(SegmentObjects, MaxSegments)
    /\ total_duration \in Times
    /\ output = <<>>
    /\ output2 = <<>>
    /\ EncodeIdle
    /\ MainIdle

\* segments_to_keep = find_worthwhile_clips(json.loads(response), total_duration)
CallClips ==
    /\ pc = "input"
    /\ output' = find_worthwhile_clips(segments, total_duration)
    /\ pc' = "called"
    /\ UNCHANGED <<segments, total_duration, output2>>
    /\ UNCHANGED encodeVars
    /\ UNCHANGED mainVars

\* The engine again, with its own keep-intervals as the unwanted ones.
CallClipsAgain ==
    /\ pc = "called"
    /\ output2' = find_worthwhile_clips(AsSegments(output), total_duration)
    /\ pc' = "again"
    /\ UNCHANGED <<segments, total_duration, output>>
    /\ UNCHANGED encodeVars
    /\ UNCHANGED mainVars

\* trim_video(video_stream, segments_to_keep) and
\* trim_audio(audio_stream, segments_to_keep) on the keep-intervals that came
\* back, when there are any.
BuildTracks ==
    /\ pc = "called"
    /\ output # <<>>
    /\ v1' = trim_video(InputStream("a", "v"), output)
    /\ a1' = trim_audio(InputStream("a", "a"), output)
    /\ pc' = "built"
    /\ UNCHANGED <<segments, total_duration, output, output2>>
    /\ UNCHANGED <<at, downloaded_videos, files, existing_mkv_files, existing_mp4_files,
                   video_index, new_height, new_width, total_length, provider_outcome,
                   trim_calls, frame_rate, output_framerate, exception,
                   encoder_outcome>>
    /\ UNCHANGED mainVars

NextClips ==
    \/ CallClips
    \/ CallClipsAgain
    \/ BuildTracks

SpecClips ==
    InitClips /\ [][NextClips]_vars

\* ------------------------------------------------------------------ main
\* The keys of CODECS.
CODECS ==
    {"x264", "x265", "av1", "hevc_nvenc", "av1_nvenc", "hevc_qsv", "hevc_mac"}

\* The --codec arguments main is called with here: two keys of CODECS and a
\* label that is none.
CodecArguments ==
    {"x265", "av1_nvenc", "libx264"}

\* A test that lets every label through.
CodecAlwaysAccepted(label) ==
    FALSE

\* if codec not in CODECS: ... exit()
CodecRejected(label) ==
    label \notin CODECS

\* The entries of the playlist behind the URL "list".
PlaylistEntries ==
    <<"a", "b">>

\* A URL is that of one video (its id), or that of the playlist.
Urls ==
    VideoIds \cup {"list"}

\* The entries of a playlist that are not None: with ignoreerrors, yt-dlp
\* leaves None for every entry it could not get.
EntriesNotNone ==
    {<<>>, <<"a">>, <<"b">>, <<"a", "b">>}

\* How ydl.extract_info(url) can end.
ExtractOutcomes(url) ==
    {[result |-> "Exception", entries |-> <<>>],
     [result |-> "KeyboardInterrupt", entries |-> <<>>]}
        \cup (IF url \in VideoIds
              THEN {[result |-> "ok", entries |-> <<url>>]}
              ELSE {[result |-> "ok", entries |-> e] : e \in EntriesNotNone})

IdsOf(entries) ==
    {entries[i] : i \in 1..Len(entries)}

\* A failure that leaves the budget as it was.
RetryBudgetKept(retries) ==
    retries

\* download_videos(videos, opts, dearrow_enabled, retries_remaining - 1)
RetryBudgetAfterFailure(retries) ==
    retries - 1

\* A lock that anyone may take.
LockAlwaysFree(lock) ==
    TRUE

\* FileLock.acquire succeeds when no other process holds the lock file.
LockFree(lock) ==
    lock = "free"

\* The finished outputs an earlier run can have left in the working directory.
FinishedOutputs ==
    {DestinationFile(d) : d \in VideoIds}

\* The invocations in `started` are at the top of main, each with a command
\* line of url_lists and labels; the others never run.
MainStarted(started, url_lists, labels) ==
    /\ main_at = [p \in Invocations |-> IF p \in started THEN "main" ELSE "absent"]
    /\ urls \in {u \in [Invocations -> url_lists] :
                    \A p \in Invocations \ started : u[p] = <<>>}
    /\ codec_label \in {c \in [Invocations -> labels \cup {"x265"}] :
                           \A p \in Invocations \ started : c[p] = "x265"}
    /\ retries_remaining = [p \in Invocations |-> 0]
    /\ url_index = [p \in Invocations |-> 0]
    /\ result_list = [p \in Invocations |-> <<>>]
    /\ downloaded_videos_of = [p \in Invocations |-> <<>>]
    /\ video_index_of = [p \in Invocations |-> 0]
    /\ existing_mkv_files_of = [p \in Invocations |-> {}]
    /\ existing_mp4_files_of = [p \in Invocations |-> {}]
    /\ exception_of = [p \in Invocations |-> "none"]
    /\ passes = [p \in Invocations |-> 0]
    /\ failures = [p \in Invocations |-> 0]
    /\ acquired = [p \in Invocations |-> {}]
    /\ phases = [p \in Invocations |-> {}]
    /\ lock_timeouts = [p \in Invocations |-> {}]

\* A lock file is free, or held throughout by a process that is not followed.
LockStates ==
    {"free", "another process"}

\* One invocation of main is followed through its run; each lock may be held
\* by another process that keeps it.
InitMain ==
    /\ ClipsIdle
    /\ EncodeLoopIdle
    /\ MainStarted({"A"}, SeqsUpTo(Urls, MaxUrls), CodecArguments)
    /\ download_lock \in LockStates
    /\ encode_lock \in LockStates
    /\ files \in SUBSET FinishedOutputs
    /\ initial_files = files

\* if codec not in CODECS: print(...); exit()
CheckCodec(p) ==
    /\ main_at[p] = "main"
    /\ main_at' = [main_at EXCEPT ![p] =
                      IF CodecRejected(codec_label[p]) THEN "exit" ELSE "download_lock"]
    /\ UNCHANGED <<urls, codec_label, download_lock, encode_lock, retries_remaining,
                   url_index, result_list, downloaded_videos_of, video_index_of,
                   existing_mkv_files_of, existing_mp4_files_of, exception_of, passes,
                   failures, acquired, phases, lock_timeouts, initial_files, files>>
    /\ UNCHANGED encodeLoopVars
    /\ UNCHANGED clipVars

\* with download_lock: the lock is obtained, and download_videos is called
\* with MAX_RETRIES.
AcquireDownloadLock(p) ==
    /\ main_at[p] = "download_lock"
    /\ LockFree(download_lock)
    /\ download_lock' = p
    /\ retries_remaining' = [retries_remaining EXCEPT ![p] = MAX_RETRIES]
    /\ phases' = [phases EXCEPT ![p] = @ \cup {"download"}]
    /\ main_at' = [main_at EXCEPT ![p] = "download_videos"]
    /\ UNCHANGED <<urls, codec_label, encode_lock, url_index, result_list,
                   downloaded_videos_of, video_index_of, existing_mkv_files_of,
                   existing_mp4_files_of, exception_of, passes, failures, acquired,
                   lock_timeouts, initial_files, files>>
    /\ UNCHANGED encodeLoopVars
    /\ UNCHANGED clipVars

\* except Timeout: print("Could not get downloading lock. Exiting early."); sys.exit()
TimeoutDownloadLock(p) ==
    /\ main_at[p] = "download_lock"
    /\ ~LockFree(download_lock)
    /\ lock_timeouts' = [lock_timeouts EXCEPT ![p] = @ \cup {"download"}]
    /\ main_at' = [main_at EXCEPT ![p] = "exit"]
    /\ UNCHANGED <<urls, codec_label, download_lock, encode_lock, retries_remaining,
                   url_index, result_list, downloaded_videos_of, video_index_of,
                   existing_mkv_files_of, existing_mp4_files_of, exception_of, passes,
                   failures, acquired, phases, initial_files, files>>
    /\ UNCHANGED encodeLoopVars
    /\ UNCHANGED clipVars

\* Entry of download_videos: without a retry left it returns the empty
\* result_list, and main goes on to the encoding phase with it.
DownloadVideosEnter(p) ==
    /\ main_at[p] = "download_videos"
    /\ result_list' = [result_list EXCEPT ![p] = <<>>]
    /\ IF retries_remaining[p] < 1
       THEN /\ downloaded_videos_of' = [downloaded_videos_of EXCEPT ![p] = <<>>]
            /\ download_lock' = "free"
            /\ main_at' = [main_at EXCEPT ![p] = "encode_lock"]
            /\ UNCHANGED <<passes, url_index>>
       ELSE /\ passes' = [passes EXCEPT ![p] = @ + 1]
            /\ url_index' = [url_index EXCEPT ![p] = 1]
            /\ main_at' = [main_at EXCEPT ![p] = "for_url"]
            /\ UNCHANGED <<downloaded_videos_of, download_lock>>
    /\ UNCHANGED <<urls, codec_label, encode_lock, retries_remaining, video_index_of,
                   existing_mkv_files_of, existing_mp4_files_of, exception_of,
                   failures, acquired, phases, lock_timeouts, initial_files, files>>
    /\ UNCHANGED encodeLoopVars
    /\ UNCHANGED clipVars

\* One turn of `for url in videos`: extract_info downloads the video (or the
\* entries of the playlist) and its entries are appended; any Exception
\* starts download_videos again on the whole list with one retry less; a
\* KeyboardInterrupt ends the process with exit().
ExtractInfo(p) ==
    /\ main_at[p] = "for_url"
    /\ url_index[p] <= Len(urls[p])
    /\ \E o \in ExtractOutcomes(urls[p][url_index[p]]) :
          IF o.result = "ok"
          THEN /\ result_list' = [result_list EXCEPT ![p] = @ \o o.entries]
               /\ files' = files \cup {InFile(d) : d \in IdsOf(o.entries)}
               /\ acquired' = [acquired EXCEPT ![p] = @ \cup IdsOf(o.entries)]
               /\ url_index' = [url_index EXCEPT ![p] = @ + 1]
               /\ UNCHANGED <<main_at, retries_remaining, failures, download_lock>>
          ELSE IF o.result = "Exception"
          THEN /\ retries_remaining' =
                     [retries_remaining EXCEPT ![p] = RetryBudgetAfterFailure(@)]
               /\ failures' = [failures EXCEPT ![p] = @ + 1]
               /\ main_at' = [main_at EXCEPT ![p] = "download_videos"]
               /\ UNCHANGED <<result_list, files, acquired, url_index, download_lock>>
          ELSE /\ main_at' = [main_at EXCEPT ![p] = "exit"]
               /\ download_lock' = "free"
               /\ UNCHANGED <<result_list, files, acquired, url_index,
                              retries_remaining, failures>>
    /\ UNCHANGED <<urls, codec_label, encode_lock, downloaded_videos_of,
                   video_index_of, existing_mkv_files_of, existing_mp4_files_of,
                   exception_of, passes, phases, lock_timeouts, initial_files>>
    /\ UNCHANGED encodeLoopVars
    /\ UNCHANGED clipVars

\* return result_list after the last URL; the with block ends and the
\* download lock is released.
DownloadVideosReturn(p) ==
    /\ main_at[p] = "for_url"
    /\ url_index[p] > Len(urls[p])
    /\ downloaded_videos_of' = [downloaded_videos_of EXCEPT ![p] = result_list[p]]
    /\ download_lock' = "free"
    /\ main_at' = [main_at EXCEPT ![p] = "encode_lock"]
    /\ UNCHANGED <<urls, codec_label, encode_lock, retries_remaining, url_index,
                   result_list, video_index_of, existing_mkv_files_of,
                   existing_mp4_files_of, exception_of, passes, failures, acquired,
                   phases, lock_timeouts, initial_files, files>>
    /\ UNCHANGED encodeLoopVars
    /\ UNCHANGED clipVars

\* with encode_lock: the lock is obtained and encode_videos is entered, where
\* the *.mkv and *.mp4 of the working directory are listed.
AcquireEncodeLock(p) ==
    /\ main_at[p] = "encode_lock"
    /\ LockFree(encode_lock)
    /\ encode_lock' = p
    /\ phases' = [phases EXCEPT ![p] = @ \cup {"encode"}]
    /\ existing_mkv_files_of' =
          [existing_mkv_files_of EXCEPT ![p] = {f \in files : f.ext = "mkv"}]
    /\ existing_mp4_files_of' =
          [existing_mp4_files_of EXCEPT ![p] = {f \in files : f.ext = "mp4"}]
    /\ video_index_of' = [video_index_of EXCEPT ![p] = 1]
    /\ main_at' = [main_at EXCEPT ![p] = "for_video"]
    /\ UNCHANGED <<urls, codec_label, download_lock, retries_remaining, url_index,
                   result_list, downloaded_videos_of, exception_of, passes, failures,
                   acquired, lock_timeouts, initial_files, files>>
    /\ UNCHANGED encodeLoopVars
    /\ UNCHANGED clipVars

\* except Timeout: print("Could not get encoding lock.")
TimeoutEncodeLock(p) ==
    /\ main_at[p] = "encode_lock"
    /\ ~LockFree(encode_lock)
    /\ lock_timeouts' = [lock_timeouts EXCEPT ![p] = @ \cup {"encode"}]
    /\ main_at' = [main_at EXCEPT ![p] = "returned"]
    /\ UNCHANGED <<urls, codec_label, download_lock, encode_lock, retries_remaining,
                   url_index, result_list, downloaded_videos_of, video_index_of,
                   existing_mkv_files_of, existing_mp4_files_of, exception_of, passes,
                   failures, acquired, phases, initial_files, files>>
    /\ UNCHANGED encodeLoopVars
    /\ UNCHANGED clipVars

\* An exception leaves encode_videos and main; the with block releases the
\* encode lock on the way.
RaiseOutOfEncode(p, type) ==
    /\ exception_of' = [exception_of EXCEPT ![p] = type]
    /\ encode_lock' = "free"
    /\ main_at' = [main_at EXCEPT ![p] = "raised"]
    /\ UNCHANGED video_index_of

\* How the body of the loop can end for a video that is not skipped.
VideoOutcomes ==
    {"promoted", "marked_failed", "ffmpeg.Error", "KeyboardInterrupt"}

\* One turn of the loop of encode_videos, from the stale lists to the rename
\* or the error path.
EncodeVideo(p) ==
    /\ main_at[p] = "for_video"
    /\ video_index_of[p] <= Len(downloaded_videos_of[p])
    /\ LET id == downloaded_videos_of[p][video_index_of[p]]
           matches == {f \in files : f.ext = "mp4" /\ f.id = id}
           continue == /\ video_index_of' = [video_index_of EXCEPT ![p] = @ + 1]
                       /\ UNCHANGED <<main_at, encode_lock, exception_of>>
       IN  /\ existing_mkv_files_of' = [existing_mkv_files_of EXCEPT ![p] = @ \ {InFile(id)}]
           /\ IF matches # {}
              THEN \E existing_file \in matches :
                      /\ UNCHANGED files
                      /\ IF existing_file \in existing_mp4_files_of[p]
                         THEN /\ existing_mp4_files_of' =
                                    [existing_mp4_files_of EXCEPT ![p] = @ \ {existing_file}]
                              /\ continue
                         ELSE /\ RaiseOutOfEncode(p, "ValueError")
                              /\ UNCHANGED existing_mp4_files_of
              ELSE /\ UNCHANGED existing_mp4_files_of
                   /\ \E o \in VideoOutcomes :
                         IF InFile(id) \notin files \/ o = "ffmpeg.Error"
                         THEN RaiseOutOfEncode(p, "ffmpeg.Error") /\ UNCHANGED files
                         ELSE IF codec_label[p] \notin CODECS
                         THEN RaiseOutOfEncode(p, "KeyError") /\ UNCHANGED files
                         ELSE IF o = "promoted"
                         THEN files' = RenameTemp(files, id) /\ continue
                         ELSE IF o = "marked_failed"
                         THEN files' = RemoveTempAndTouchError(files, id) /\ continue
                         ELSE RaiseOutOfEncode(p, "KeyboardInterrupt") /\ UNCHANGED files
    /\ UNCHANGED <<urls, codec_label, download_lock, retries_remaining, url_index,
                   result_list, downloaded_videos_of, passes, failures, acquired,
                   phases, lock_timeouts, initial_files>>
    /\ UNCHANGED encodeLoopVars
    /\ UNCHANGED clipVars

\* After the loop: what is left of the lists taken on entry, and every *.tmp,
\* is removed; encode_videos returns and the encode lock is released.
EncodeCleanup(p) ==
    /\ main_at[p] = "for_video"
    /\ video_index_of[p] > Len(downloaded_videos_of[p])
    /\ files' = {f \in files : /\ f \notin existing_mkv_files_of[p]
                               /\ f \notin existing_mp4_files_of[p]
                               /\ f.ext # "tmp"}
    /\ encode_lock' = "free"
    /\ main_at' = [main_at EXCEPT ![p] = "returned"]
    /\ UNCHANGED <<urls, codec_label, download_lock, retries_remaining, url_index,
                   result_list, downloaded_videos_of, video_index_of,
                   existing_mkv_files_of, existing_mp4_files_of, exception_of, passes,
                   failures, acquired, phases, lock_timeouts, initial_files>>
    /\ UNCHANGED encodeLoopVars
    /\ UNCHANGED clipVars

MainStep(p) ==
    \/ CheckCodec(p)
    \/ AcquireDownloadLock(p)
    \/ TimeoutDownloadLock(p)
    \/ DownloadVideosEnter(p)
    \/ ExtractInfo(p)
    \/ DownloadVideosReturn(p)
    \/ AcquireEncodeLock(p)
    \/ TimeoutEncodeLock(p)
    \/ EncodeVideo(p)
    \/ EncodeCleanup(p)

NextMain ==
    \E p \in Invocations : MainStep(p)

SpecMain ==
    InitMain /\ [][NextMain]_vars

\* Two invocations of main started in one working directory, in any
\* interleaving of their steps.
InitShared ==
    /\ ClipsIdle
    /\ EncodeLoopIdle
    /\ MainStarted(Invocations, SeqsUpTo(VideoIds, MaxSharedUrls), {"x265"})
    /\ download_lock = "free"
    /\ encode_lock = "free"
    /\ files = {}
    /\ initial_files = files

SpecShared ==
    InitShared /\ [][NextMain]_vars
\* ------------------------------------------------------------------ end of main

\* ------------------------------------------------------------------ measuring intervals
\* The unit cell [t, t+1] lies inside one of the intervals.
CellCovered(list, t) ==
    \E i \in 1 .. Len(list) : list[i][1] <= t /\ t + 1 <= list[i][2]

\* The union of the intervals, as the set of unit cells it contains: two
\* unions with the same cells differ at most in boundary points.
Cells(list) ==
    {t \in 0 .. MaxTime - 1 : CellCovered(list, t)}

RECURSIVE SumLengths(_)
SumLengths(list) ==
    IF list = <<>> THEN 0
    ELSE (Head(list)[2] - Head(list)[1]) + SumLengths(Tail(list))

Unwanted ==
    SegmentList(segments)

\* Every reordering of the supplied segments.
Reorderings(segs) ==
    {[i \in 1 .. Len(segs) |-> segs[p[i]]] : p \in Permutations(1 .. Len(segs))}

\* One unwanted interval lies inside another one without reaching its end.
HasNested ==
    \E i, j \in 1 .. Len(Unwanted) :
        /\ i # j
        /\ Unwanted[i][1] <= Unwanted[j][1]
        /\ Unwanted[j][2] < Unwanted[i][2]

\* ------------------------------------------------------------------ claims on find_worthwhile_clips

\* C1: the lengths of the returned keep-intervals add up to total_duration
\* minus the measure of the union of the unwanted intervals clipped to
\* [0, total_duration].
C1_KeptLengthIsComplement ==
    pc # "input" =>
        SumLengths(output) =
            total_duration - Cardinality(Cells(Unwanted) \cap (0 .. total_duration - 1))

\* C2: no returned keep-interval contains a point lying strictly inside an
\* unwanted interval.
C2_NoUnwantedContentKept ==
    pc # "input" =>
        \A k \in 1 .. Len(output), u \in 1 .. Len(Unwanted) :
            ~ (MaxOf(output[k][1], Unwanted[u][1]) < MinOf(output[k][2], Unwanted[u][2]))

\* C3: the returned keep-intervals are strictly ascending and pairwise
\* non-overlapping (each end <= the next start), and none is emitted twice.
C3_KeepIntervalsAscendingDisjoint ==
    pc # "input" =>
        /\ \A i \in 1 .. Len(output) - 1 :
              /\ output[i][2] <= output[i + 1][1]
              /\ output[i][1] < output[i + 1][1]
        /\ \A i, j \in 1 .. Len(output) : i # j => output[i] # output[j]

\* C3 witness: an unsorted input with a nested interval produced several
\* keep-intervals.
C3_Witness ==
    /\ pc = "called"
    /\ Len(output) >= 2
    /\ HasNested
    /\ Unwanted # sorted(Unwanted)

\* C4: every returned keep-interval (s, e) has 0 <= s < e <= total_duration.
C4_KeepIntervalsWithinDuration ==
    pc # "input" =>
        \A k \in 1 .. Len(output) :
            /\ 0 <= output[k][1]
            /\ output[k][1] < output[k][2]
            /\ output[k][2] <= total_duration

\* C5: the result is the same for every reordering of the supplied segments,
\* and is the one obtained from the segments sorted by start.
C5_OrderIndependent ==
    pc # "input" =>
        /\ \A q \in Reorderings(segments) :
              find_worthwhile_clips(q, total_duration) = output
        /\ find_worthwhile_clips(AsSegments(sorted_by_start(Unwanted)), total_duration)
              = output

\* C5 witness: an out-of-order input in which two segments share a start.
C5_Witness ==
    /\ pc = "called"
    /\ Unwanted # sorted(Unwanted)
    /\ \E i, j \in 1 .. Len(Unwanted) :
          Unwanted[i][1] = Unwanted[j][1] /\ Unwanted[i][2] # Unwanted[j][2]
    /\ Len(output) >= 2

\* C6 as stated: no unwanted segments give exactly the keep-interval
\* (0, total_duration), for every total_duration >= 0.
C6_EmptyGivesWholeDuration ==
    (pc # "input" /\ segments = <<>>) => output = <<<<0, total_duration>>>>

\* C6 amended: no unwanted segments give exactly the keep-interval
\* (0, total_duration) when total_duration > 0, and no keep-interval when
\* total_duration = 0.
C6_EmptyGivesWholePositiveDuration ==
    (pc # "input" /\ segments = <<>>) =>
        output = IF total_duration > 0 THEN <<<<0, total_duration>>>> ELSE <<>>

\* C6 witness: the engine ran on an empty collection and a positive duration.
C6_Witness ==
    /\ pc = "called"
    /\ segments = <<>>
    /\ total_duration > 0
    /\ output = <<<<0, total_duration>>>>

\* C7: when the union of the unwanted segments covers [0, total_duration]
\* completely, the returned list is empty.
C7_FullCoverGivesEmpty ==
    (/\ pc # "input"
     /\ \E u \in 1 .. Len(Unwanted) : Unwanted[u][1] = 0
     /\ (0 .. total_duration - 1) \subseteq Cells(Unwanted))
        => output = <<>>

\* C8: for unwanted intervals inside [0, total_duration], the engine run on
\* its own keep-intervals returns the union of the original unwanted
\* intervals, up to boundary points.
C8_ComplementRoundTrip ==
    (/\ pc = "again"
     /\ \A u \in 1 .. Len(Unwanted) : Unwanted[u][2] <= total_duration)
        => Cells(output2) = Cells(Unwanted)

\* ------------------------------------------------------------------ claims on add_sponsor_video_filter
CurrentVideoInput ==
    InputStream(display_id, "v")

CurrentAudioInput ==
    InputStream(display_id, "a")

RaisedInSponsorFilter ==
    at = "raised" /\ exception.where = "add_sponsor_video_filter"

\* The query failed: it timed out, the connection failed, the body is not
\* JSON, or the JSON is not an array of objects that all carry a segment.
QueryFailed(o) ==
    \/ o.raises \in {"ReadTimeout", "ConnectionError"}
    \/ /\ o.raises = "none"
       /\ LET parsed == json_loads(o.text)
          IN  \/ parsed.raises # "none"
              \/ parsed.type # "list"
              \/ SegmentLookupRaises(parsed) # "none"

\* fetch_sponsored_bits returned the "Not Found" sentinel, or a text that
\* does not parse as JSON.
Unparsed(o) ==
    LET fetched == fetch_sponsored_bits(o)
    IN  /\ fetched.raises = "none"
        /\ \/ fetched.text = NotFoundText
           \/ json_loads(fetched.text).raises = "JSONDecodeError"

\* C9: whatever way the segment-provider query fails, add_sponsor_video_filter
\* returns normally with the untrimmed tracks and encode_videos goes on with
\* that video.
C9_ProviderFailureNeverAborts ==
    QueryFailed(provider_outcome) =>
        /\ ~ RaisedInSponsorFilter
        /\ at = "transform" => (v1 = CurrentVideoInput /\ a1 = CurrentAudioInput)

\* C10: when the response is the "Not Found" sentinel or fails to parse as
\* JSON, add_sponsor_video_filter returns exactly the tracks it was given, and
\* the tracks handed to the encoder are the inputs with only the speed and
\* scale stages applied.
C10_UnparsedResponseLeavesTracks ==
    Unparsed(provider_outcome) =>
        /\ ~ RaisedInSponsorFilter
        /\ at = "transform" => (v1 = CurrentVideoInput /\ a1 = CurrentAudioInput)
        /\ at = "run" =>
              /\ v1 = IF new_height > MAX_HEIGHT \/ new_width > MAX_WIDTH
                      THEN ScaleDown(SpeedUpVideo(CurrentVideoInput))
                      ELSE SpeedUpVideo(CurrentVideoInput)
              /\ a1 = SpeedUpAudio(CurrentAudioInput)

\* C10 witness: a body that is not JSON came back, and the filter step
\* returned the input tracks.
C10_Witness ==
    /\ at = "transform"
    /\ provider_outcome.raises = "none"
    /\ provider_outcome.text # NotFoundText
    /\ json_loads(provider_outcome.text).raises = "JSONDecodeError"
    /\ v1 = CurrentVideoInput
    /\ a1 = CurrentAudioInput

\* ------------------------------------------------------------------ claims on the graph builders

\* C11: trim_video and trim_audio are never called with zero keep-intervals:
\* add_sponsor_video_filter detects an empty keep-interval list before it
\* builds the graph.
C11_BuildersNeverGetZeroKeepIntervals ==
    \A i \in 1 .. Len(trim_calls) : trim_calls[i].segments_to_keep # <<>>

\* What the filters of a track do to the timeline, read off the graph: the
\* pieces of source it plays, each with the span [from, to] it was cut to and
\* the timestamp pts its first frame carries. trim and atrim cut and leave
\* the timestamps alone, PTS-STARTPTS moves the first timestamp to zero, and
\* concat plays its inputs one after the other, each shifted to the end of
\* the one before.
RECURSIVE Rendered(_)
RECURSIVE ConcatPieces(_, _, _)
ConcatPieces(inputs, offset, out) ==
    IF inputs = <<>> THEN out
    ELSE LET r == Rendered(Head(inputs))
             shifted == [k \in 1 .. Len(r) |-> [r[k] EXCEPT !.pts = @ + offset]]
             last == shifted[Len(shifted)]
             next_offset == IF r = <<>> THEN offset
                            ELSE last.pts + (last.to - last.from)
         IN  ConcatPieces(Tail(inputs), next_offset, out \o shifted)

Rendered(node) ==
    IF node.op = "concat" THEN ConcatPieces(node.inputs, 0, <<>>)
    ELSE IF node.op \in {"setpts", "asetpts"} /\ node.expr = "PTS-STARTPTS"
    THEN LET r == Rendered(node.in)
         IN  [k \in 1 .. Len(r) |-> [r[k] EXCEPT !.pts = @ - r[1].pts]]
    ELSE IF node.op \in {"trim", "atrim"}
    THEN <<[from |-> node.start, to |-> node.end, pts |-> node.start,
            source |-> node.in]>>
    ELSE Rendered(node.in)

\* The end of the last piece on the output timeline.
RenderedLength(node) ==
    LET r == Rendered(node)
    IN  IF r = <<>> THEN 0 ELSE r[Len(r)].pts + (r[Len(r)].to - r[Len(r)].from)

\* The input stream a filter chain hangs on.
RECURSIVE SourceOf(_)
SourceOf(node) ==
    IF node.op = "input" THEN node ELSE SourceOf(node.in)

\* Concat input i of the track is output i of an n-way split of the source,
\* trimmed to the interval and re-origined.
IsSubClip(clip, source, split_op, trim_op, setpts_op, n, i, interval) ==
    /\ clip.op = setpts_op
    /\ clip.expr = "PTS-STARTPTS"
    /\ clip.in.op = trim_op
    /\ clip.in.start = interval[1]
    /\ clip.in.end = interval[2]
    /\ clip.in.in.op = split_op
    /\ clip.in.in.outputs = n
    /\ clip.in.in.index = i - 1
    /\ clip.in.in.in = source

\* The track is the concat of exactly the sub-clips of keep, in order, and
\* plays them end to end.
IsTrimmedTrack(track, source, split_op, trim_op, setpts_op, keep) ==
    /\ track.op = "concat"
    /\ track.n = Len(keep)
    /\ Len(track.inputs) = Len(keep)
    /\ \A i \in 1 .. Len(keep) :
          IsSubClip(track.inputs[i], source, split_op, trim_op, setpts_op,
                    Len(keep), i, keep[i])
    /\ Rendered(track) =
          [i \in 1 .. Len(keep) |->
              [from |-> keep[i][1], to |-> keep[i][2],
               pts |-> SumLengths(SubSeq(keep, 1, i - 1)),
               source |-> track.inputs[i].in.in]]
    /\ RenderedLength(track) = SumLengths(keep)

\* C12: for N >= 1 keep-intervals, trim_video and trim_audio split the input
\* into exactly N copies, trim copy i to keep-interval i, re-origin it, and
\* concatenate exactly these N sub-clips in keep-interval order; the output
\* timeline is the keep-intervals laid end to end and as long as their sum.
C12_SubClipsInKeepIntervalOrder ==
    (pc = "built" /\ Len(output) >= 1) =>
        /\ IsTrimmedTrack(v1, InputStream("a", "v"), "split", "trim", "setpts", output)
        /\ v1.v = 1 /\ v1.a = 0
        /\ IsTrimmedTrack(a1, InputStream("a", "a"), "asplit", "atrim", "asetpts", output)
        /\ a1.v = 0 /\ a1.a = 1

\* C12 witness: tracks were built from several keep-intervals of different
\* lengths.
C12_Witness ==
    /\ pc = "built"
    /\ Len(output) >= 2
    /\ output[1][2] - output[1][1] # output[2][2] - output[2][1]
    /\ RenderedLength(v1) = SumLengths(output)
    /\ RenderedLength(a1) = SumLengths(output)

\* The (start, end) bounds of the sub-clips of a trimmed track, in concat
\* order.
SubClipBounds(track) ==
    [i \in 1 .. Len(track.inputs) |-> <<track.inputs[i].in.start, track.inputs[i].in.end>>]

\* C13: whenever add_sponsor_video_filter trims, video and audio are built
\* from the same keep-interval sequence: as many sub-clips on both, the i-th
\* with the same bounds on both; a trimmed track is never paired with an
\* untrimmed one.
C13_VideoAndAudioTrimmedAlike ==
    at = "transform" =>
        /\ v1.op = "concat" <=> a1.op = "concat"
        /\ v1.op = "concat" =>
              /\ v1.n = a1.n
              /\ Len(v1.inputs) = Len(a1.inputs)
              /\ SubClipBounds(v1) = SubClipBounds(a1)
              /\ Len(trim_calls) = 2
              /\ trim_calls[1].fn = "trim_video"
              /\ trim_calls[2].fn = "trim_audio"
              /\ trim_calls[1].segments_to_keep = trim_calls[2].segments_to_keep
              /\ SubClipBounds(v1) = trim_calls[1].segments_to_keep
        /\ v1.op # "concat" =>
              (v1 = CurrentVideoInput /\ a1 = CurrentAudioInput /\ trim_calls = <<>>)

\* C13 witness: both tracks came back trimmed to the same several
\* keep-intervals.
C13_Witness ==
    /\ at = "transform"
    /\ v1.op = "concat"
    /\ a1.op = "concat"
    /\ v1.n >= 2
    /\ SubClipBounds(v1) = SubClipBounds(a1)

\* trim + PTS-STARTPTS applied to the track itself, with no split and no
\* concat: the reference the one-interval case is compared with.
DirectTrim(stream, trim_op, setpts_op, interval) ==
    [op |-> setpts_op, expr |-> "PTS-STARTPTS",
     in |-> [op |-> trim_op, start |-> interval[1], end |-> interval[2], in |-> stream]]

\* The pieces a track plays, without the graph nodes they are cut from.
Played(track) ==
    LET r == Rendered(track)
    IN  [k \in 1 .. Len(r) |->
            [from |-> r[k].from, to |-> r[k].to, pts |-> r[k].pts,
             source |-> SourceOf(r[k].source)]]

\* C14: with exactly one keep-interval the track trim_video / trim_audio build
\* plays what a direct trim followed by PTS-STARTPTS plays: the same span of
\* the same source, starting at zero, of the same length.
C14_SingleIntervalIsDirectTrim ==
    (pc = "built" /\ Len(output) = 1) =>
        /\ Played(v1) = Played(DirectTrim(InputStream("a", "v"), "trim", "setpts", output[1]))
        /\ RenderedLength(v1) =
              RenderedLength(DirectTrim(InputStream("a", "v"), "trim", "setpts", output[1]))
        /\ Played(a1) = Played(DirectTrim(InputStream("a", "a"), "atrim", "asetpts", output[1]))
        /\ RenderedLength(a1) =
              RenderedLength(DirectTrim(InputStream("a", "a"), "atrim", "asetpts", output[1]))
        /\ Played(v1)[1].pts = 0
        /\ Played(a1)[1].pts = 0

\* C14 witness: tracks were built from one keep-interval that does not start
\* at zero.
C14_Witness ==
    /\ pc = "built"
    /\ Len(output) = 1
    /\ output[1][1] > 0
    /\ Played(v1) = <<[from |-> output[1][1], to |-> output[1][2], pts |-> 0,
                       source |-> InputStream("a", "v")]>>

\* ------------------------------------------------------------------ claims on the transform stages

\* What is handed to the encoder.
EncoderInput ==
    codec(v1, a1, TempFile(display_id), output_framerate)

\* A concat input that is a re-origined trim of a split of the input.
IsPlainSubClip(clip) ==
    /\ clip.op \in {"setpts", "asetpts"}
    /\ clip.expr = "PTS-STARTPTS"
    /\ clip.in.op \in {"trim", "atrim"}
    /\ clip.in.in.op \in {"split", "asplit"}
    /\ clip.in.in.in.op = "input"

\* The stages on the way from a node down to the input, outermost first. A
\* concat counts as the trim stage when each of its inputs is a re-origined
\* trim of a split of the input.
RECURSIVE Stages(_)
Stages(node) ==
    IF node.op = "input" THEN <<"input">>
    ELSE IF node.op = "concat"
    THEN IF \A i \in 1 .. Len(node.inputs) : IsPlainSubClip(node.inputs[i])
         THEN <<"trim", "input">>
         ELSE <<"unknown">>
    ELSE IF node.op = "setpts" /\ node.expr = <<"PTS/", SPEED_FACTOR_NUM, SPEED_FACTOR_DEN>>
    THEN <<"speed">> \o Stages(node.in)
    ELSE IF node.op = "atempo" /\ node.tempo = <<SPEED_FACTOR_NUM, SPEED_FACTOR_DEN>>
    THEN <<"speed">> \o Stages(node.in)
    ELSE IF node.op = "scale" THEN <<"scale">> \o Stages(node.in)
    ELSE <<"unknown">>

\* The keep-intervals of the current video, from the parsed response and the
\* duration probed on the untrimmed source.
KeepIntervalsOfSource ==
    find_worthwhile_clips(IterableOf(json_loads(provider_outcome.text)), total_length)

\* C15: the stages are applied in a fixed order, each on the output of the
\* one before: sponsor trim (computed with the duration probed on the
\* untrimmed source), then speed (setpts PTS/SPEED_FACTOR on video, atempo
\* SPEED_FACTOR on audio), then scale, then the frame rate of the output; the
\* speed stage is never under the trim.
C15_StagesInFixedOrder ==
    /\ at = "sponsor" =>
          (Stages(v1) = <<"input">> /\ Stages(a1) = <<"input">>)
    /\ at = "transform" =>
          /\ Stages(v1) = Stages(a1)
          /\ Stages(v1) =
                IF trim_calls = <<>> THEN <<"input">> ELSE <<"trim", "input">>
          /\ trim_calls # <<>> =>
                /\ trim_calls[1].segments_to_keep = KeepIntervalsOfSource
                /\ SubClipBounds(v1) = KeepIntervalsOfSource
                /\ SubClipBounds(a1) = KeepIntervalsOfSource
          /\ output_framerate = 0
    /\ at = "run" =>
          LET trimmed == IF trim_calls = <<>> THEN <<"input">> ELSE <<"trim", "input">>
          IN  /\ EncoderInput.op = "output"
              /\ EncoderInput.r = output_framerate
              /\ Stages(EncoderInput.video) \in
                    {<<"scale", "speed">> \o trimmed, <<"speed">> \o trimmed}
              /\ Stages(EncoderInput.audio) = <<"speed">> \o trimmed

\* C15 witness: a trimmed, sped-up and scaled video goes to the encoder.
C15_Witness ==
    /\ at = "run"
    /\ Stages(v1) = <<"scale", "speed", "trim", "input">>
    /\ Stages(a1) = <<"speed", "trim", "input">>
    /\ Len(trim_calls[1].segments_to_keep) >= 2
    /\ output_framerate > 0

\* C16: the frame rate handed to the encoder is the smaller of
\* SPEED_FACTOR * source frame rate and MAX_OUTPUT_FRAME_RATE (both in units
\* of 1/SPEED_FACTOR_DEN frames per second): it exceeds neither and equals
\* one of them.
C16_FrameRateIsMinimum ==
    at = "run" =>
        /\ EncoderInput.r <= SPEED_FACTOR_DEN * MAX_OUTPUT_FRAME_RATE
        /\ EncoderInput.r <= SPEED_FACTOR_NUM * frame_rate
        /\ \/ EncoderInput.r = SPEED_FACTOR_DEN * MAX_OUTPUT_FRAME_RATE
           \/ EncoderInput.r = SPEED_FACTOR_NUM * frame_rate

\* C16 witness: a source whose sped-up rate is above the maximum is handed to
\* the encoder at the maximum.
C16_Witness ==
    /\ at = "run"
    /\ SPEED_FACTOR_NUM * frame_rate > SPEED_FACTOR_DEN * MAX_OUTPUT_FRAME_RATE
    /\ output_framerate = SPEED_FACTOR_DEN * MAX_OUTPUT_FRAME_RATE

\* av_rescale(a, b, c): a * b / c rounded to the nearest integer.
Rescale(a, b, c) ==
    (2 * a * b + c) \div (2 * c)

\* <<width, height>> the scale filter gives a width x height frame: the
\* requested box, each side cut to what keeps the aspect ratio ("decrease")
\* or raised to it ("increase"), then rounded down ("decrease") or up to a
\* multiple of force_divisible_by.
ScaleFilterSize(node, width, height) ==
    LET tmp_w == Rescale(node.height, width, height)
        tmp_h == Rescale(node.width, height, width)
        by == node.force_divisible_by
    IN  IF node.force_original_aspect_ratio = "decrease"
        THEN <<(MinOf(tmp_w, node.width) \div by) * by,
               (MinOf(tmp_h, node.height) \div by) * by>>
        ELSE <<((MaxOf(tmp_w, node.width) + by - 1) \div by) * by,
               ((MaxOf(tmp_h, node.height) + by - 1) \div by) * by>>

\* <<width, height>> of the frames a video track delivers for a source of
\* the given size: only scale changes the size.
RECURSIVE OutputSize(_, _, _)
OutputSize(node, width, height) ==
    IF node.op \in {"input", "concat"} THEN <<width, height>>
    ELSE IF node.op = "scale"
    THEN LET inner == OutputSize(node.in, width, height)
         IN  ScaleFilterSize(node, inner[1], inner[2])
    ELSE OutputSize(node.in, width, height)

\* C17: the scale stage (MAX_WIDTH x MAX_HEIGHT, aspect ratio kept by
\* decreasing, sides divisible by 2) is on the video track exactly when the
\* source height exceeds MAX_HEIGHT or the source width exceeds MAX_WIDTH;
\* neither output side exceeds its maximum, and a source within both maxima
\* keeps its size and gets no scale stage.
C17_ScaledExactlyWhenTooLarge ==
    at = "run" =>
        LET too_large == new_height > MAX_HEIGHT \/ new_width > MAX_WIDTH
            size == OutputSize(v1, new_width, new_height)
        IN  /\ v1.op = "scale" <=> too_large
            /\ v1.op = "scale" =>
                  /\ v1.width = MAX_WIDTH
                  /\ v1.height = MAX_HEIGHT
                  /\ v1.force_original_aspect_ratio = "decrease"
                  /\ v1.force_divisible_by = 2
                  /\ v1.in = SpeedUpVideo(CurrentVideoInput)
                  /\ size[1] % 2 = 0
                  /\ size[2] % 2 = 0
            /\ size[1] <= MAX_WIDTH
            /\ size[2] <= MAX_HEIGHT
            /\ ~ too_large =>
                  /\ v1 = SpeedUpVideo(CurrentVideoInput)
                  /\ size = <<new_width, new_height>>

\* C17 witness: a source only just too wide, and within the height, got the
\* scale stage and comes out inside the box.
C17_Witness ==
    /\ at = "run"
    /\ new_width = MAX_WIDTH + 1
    /\ new_height <= MAX_HEIGHT
    /\ v1.op = "scale"
    /\ OutputSize(v1, new_width, new_height)[1] <= MAX_WIDTH
    /\ OutputSize(v1, new_width, new_height)[2] < new_height

\* ------------------------------------------------------------------ claims on the encoder run

\* A file with the destination name of video d appears in this step.
DestinationCreated(d) ==
    DestinationFile(d) \notin files /\ DestinationFile(d) \in files'

\* C18: a destination file comes into existence only in the step that runs
\* the encoder for that video, when the run returned without error and the
\* temporary file was there, and by renaming the temporary file; no
\* destination file is created in a step whose encoder run failed or was
\* interrupted.
C18_DestinationOnlyByRenameAfterSuccess ==
    [][\A d \in VideoIds :
          DestinationCreated(d) =>
              /\ at = "run"
              /\ d = display_id
              /\ encoder_outcome' = [result |-> "ok", tmp_exists |-> TRUE, id |-> d]
              /\ TempFile(d) \notin files'
              /\ files' \ {DestinationFile(d)} = files \ {TempFile(d)}]_vars

\* C18 witness: the encoder run of a video succeeded and its destination
\* file, not there on entry, is in the directory, the temporary file gone.
C18_Witness ==
    /\ at = "for"
    /\ encoder_outcome.result = "ok"
    /\ DestinationFile(encoder_outcome.id) \in files
    /\ TempFile(encoder_outcome.id) \notin files

\* C19: after every encoder error, with or without a temporary file written,
\* the temporary file is gone, the ERROR_ENCODING_FILE sentinel of the video
\* is there, and encode_videos is at the head of the loop for the next video
\* with no exception raised.
C19_EncoderFailureNeverAborts ==
    encoder_outcome.result = "ffmpeg.Error" =>
        /\ at = "for"
        /\ exception = NoException
        /\ TempFile(encoder_outcome.id) \notin files
        /\ ErrorFile(encoder_outcome.id) \in files

\* C20: a video whose destination file exists when its turn comes is skipped:
\* the step at the head of the loop raises nothing, leaves the directory as
\* it is and moves on to the next video.
C20_ExistingDestinationIsSkipped ==
    [][(/\ at = "for"
        /\ video_index <= Len(downloaded_videos)
        /\ DestinationFile(display_id) \in files)
          => (/\ at' = "for"
              /\ video_index' = video_index + 1
              /\ exception' = NoException
              /\ files' = files)]_vars

\* ------------------------------------------------------------------ acquisition retries
\* download_videos has returned to main.
Downloaded(p) ==
    main_at[p] \in {"encode_lock", "for_video", "returned", "raised"}

\* download_videos has returned because no retry was left.
RetriesExhausted(p) ==
    Downloaded(p) /\ retries_remaining[p] < 1

\* C21: when the retries are used up, download_videos still returns the
\* entries of the videos it had acquired: every id whose acquisition succeeded
\* during the batch is in the list main gets back.
C21_ExhaustedRetriesKeepAcquiredVideos ==
    \A p \in Invocations :
        RetriesExhausted(p) => acquired[p] \subseteq IdsOf(downloaded_videos_of[p])

\* ------------------------------------------------------------------ batch completion
\* C22: once encode_videos has begun nothing but an interrupt of the user
\* keeps the batch from its end: no exception raised by a missing or
\* unprobeable source, an encoder failure or an existing destination leaves
\* the loop before the cleanup.
C22_BatchContinuesToCleanup ==
    at = "raised" => exception.type = "KeyboardInterrupt"

\* ------------------------------------------------------------------ codec check
\* The invocation has taken no lock, tried for none, and started no phase.
NothingBegun(p) ==
    /\ main_at[p] \in {"absent", "main", "exit"}
    /\ phases[p] = {}
    /\ lock_timeouts[p] = {}
    /\ download_lock # p
    /\ encode_lock # p
    /\ passes[p] = 0
    /\ acquired[p] = {}
    /\ downloaded_videos_of[p] = <<>>

\* C23: an invocation whose codec is no key of CODECS never gets past the
\* check at the top of main: it holds and requests no lock, starts no pass of
\* download_videos, never enters encode_videos, and the working directory
\* stays as it was; and no invocation ever fails the CODECS[codec_label]
\* lookup of encode_videos.
C23_UnrecognizedCodecRejectedFirst ==
    \A p \in Invocations :
        /\ codec_label[p] \notin CODECS => NothingBegun(p) /\ files = initial_files
        /\ exception_of[p] # "KeyError"

\* An unrecognized codec has been rejected in a directory holding finished
\* outputs.
C23_Witness ==
    /\ codec_label["A"] \notin CODECS
    /\ main_at["A"] = "exit"
    /\ initial_files # {}

\* ------------------------------------------------------------------ locks
\* The invocations inside download_videos, and those inside encode_videos.
InDownloadVideos ==
    {p \in Invocations : main_at[p] \in {"download_videos", "for_url"}}

InEncodeVideos ==
    {p \in Invocations : main_at[p] = "for_video"}

\* The invocation has left main: by returning, by exit() or by an exception.
Left(p) ==
    main_at[p] \in {"returned", "exit", "raised"}

\* C24: at most one invocation is inside download_videos and at most one
\* inside encode_videos, and the one inside holds the lock of the phase; an
\* invocation that failed to obtain a lock has done nothing of that phase (and
\* without the download lock nothing of the encoding either); no lock is held
\* by an invocation that is outside the phase, whichever way it left it.
C24_LocksSerializeThePhases ==
    /\ Cardinality(InDownloadVideos) <= 1
    /\ Cardinality(InEncodeVideos) <= 1
    /\ \A p \in Invocations :
          /\ p \in InDownloadVideos <=> download_lock = p
          /\ p \in InEncodeVideos <=> encode_lock = p
          /\ "download" \in lock_timeouts[p] =>
                /\ phases[p] = {}
                /\ passes[p] = 0
                /\ main_at[p] = "exit"
          /\ "encode" \in lock_timeouts[p] =>
                /\ "encode" \notin phases[p]
                /\ video_index_of[p] = 0
                /\ main_at[p] = "returned"
          /\ Left(p) => download_lock # p /\ encode_lock # p

\* One invocation has timed out on the download lock; the other has left
\* encode_videos by an exception, and the encode lock is free again.
C24_Witness ==
    /\ "download" \in lock_timeouts["B"]
    /\ main_at["A"] = "raised"
    /\ encode_lock = "free"

\* ------------------------------------------------------------------ retry budget
\* What is left to do of download_videos: the retries, then the URLs of the
\* running pass.
Variant(p) ==
    LET n == Len(urls[p])
        rank == IF main_at[p] = "download_videos" THEN n + 2
                ELSE IF main_at[p] = "for_url" THEN n + 2 - url_index[p]
                ELSE 0
    IN  retries_remaining[p] * (n + 3) + rank

\* The budget is MAX_RETRIES less one per failure, a pass over the URLs runs
\* only with a budget of 1 or more, and no more than MAX_RETRIES passes are
\* started.
BudgetAccounted(p) ==
    "download" \in phases[p] =>
        /\ retries_remaining[p] = MAX_RETRIES - failures[p]
        /\ retries_remaining[p] >= 0
        /\ main_at[p] = "for_url" => retries_remaining[p] >= 1
        /\ passes[p] <= MAX_RETRIES
        /\ Variant(p) >= 0

\* Every step taken inside download_videos brings its end nearer.
VariantDecreases(p) ==
    p \in InDownloadVideos => Variant(p)' < Variant(p)

\* C25: for every URL list and every pattern of failures the budget goes down
\* by exactly one per failure, nothing is acquired with a budget below 1, at
\* most MAX_RETRIES passes are started, and download_videos terminates: each
\* of its steps lowers a measure that is never negative.
C25_AcquisitionRetryIsBounded ==
    /\ [](\A p \in Invocations : BudgetAccounted(p))
    /\ [][\A p \in Invocations : VariantDecreases(p)]_vars

\* The budget has been used up: MAX_RETRIES passes, each ended by a failure.
C25_Witness ==
    /\ RetriesExhausted("A")
    /\ passes["A"] = MAX_RETRIES
    /\ failures["A"] = MAX_RETRIES
    /\ acquired["A"] # {}

\* ------------------------------------------------------------------ cleanup and finished work
\* The videos whose URLs are on the command line of the invocation.
RequestedVideos(p) ==
    {urls[p][i] : i \in 1..Len(urls[p])} \cap VideoIds

\* C26: when the run has ended, every finished output that was in the working
\* directory before the run and belongs to a requested video is still there,
\* also when download_videos returned fewer entries than were requested.
C26_CleanupKeepsFinishedOutputs ==
    \A p \in Invocations :
        Left(p) =>
            \A f \in initial_files :
                f.ext = "mp4" /\ f.id \in RequestedVideos(p) => f \in files

\* ------------------------------------------------------------------ cleanup across invocations
\* C27: whenever the loop of encode_videos of an invocation is about to take
\* up a video that the invocation has downloaded, the source file of the video
\* is in the working directory: no cleanup of another invocation has removed
\* it in between.
C27_SourceKeptUntilEncoded ==
    \A p \in Invocations :
        (main_at[p] = "for_video" /\ video_index_of[p] <= Len(downloaded_videos_of[p]))
            => InFile(downloaded_videos_of[p][video_index_of[p]]) \in files
====
